---- MODULE Spec2Model ----
(***************************************************************************)
(* Model of pydantic_prompter/llm_providers/model.py: the provider         *)
(* formatters (Model, GPT, Llama2, CohereCommand, CohereCommandR, Claude), *)
(* their message normalisation, scaffold injection and request bodies.     *)
(*                                                                         *)
(* Text is a sequence of string tokens; concatenation of text is \o.       *)
(* Caller-supplied contents are opaque to the code (it only concatenates   *)
(* them), so a caller message carries one token naming it.                 *)
(* Message objects live in a heap (a sequence, the object id is the        *)
(* index), because the code mutates them in place; a list of messages is a *)
(* sequence of ids.  A caller's list holds distinct objects.               *)
(***************************************************************************)
EXTENDS Integers, Sequences, FiniteSets, TLC

VARIABLES
    variant,                \* class of the formatter object
    system_role_supported,  \* its system_role_supported attribute
    model_settings,         \* its model_settings attribute
    params,                 \* the return-type descriptor the caller uses
    heap,                   \* Message objects: id -> [role, content]
    msgs,                   \* the message list the caller holds (ids)
    input,                  \* the messages (values) the caller started with
    hist,                   \* the methods called so far, in order
    arg,                    \* the messages (values) passed to the last call
    error,                  \* the exception the last call raised, or "none"
    body,                   \* request body returned by bedrock_format
    entries                 \* list returned by format_messages

vars == <<variant, system_role_supported, model_settings, params, heap, msgs,
          input, hist, arg, error, body, entries>>

----------------------------------------------------------------------------
\* Bounds

MaxLen == 3          \* longest caller message list
MaxCalls == 2        \* method calls per run
TempScale == 4       \* uniform(0, 1) yields k / TempScale, k in 0..TempScale-1

----------------------------------------------------------------------------
\* Python values of the settings mapping

None == [t |-> "None"]
Num(n) == [t |-> "num", n |-> n]
Str(s) == [t |-> "str", s |-> s]
List(l) == [t |-> "list", l |-> l]
Dict(d) == [t |-> "dict", d |-> d]

\* Python truth value, as used by the `or` operator
Truthy(v) ==
    CASE v.t = "None" -> FALSE
      [] v.t = "num" -> v.n # 0
      [] v.t = "str" -> v.s # ""
      [] v.t = "list" -> v.l # <<>>
      [] v.t = "dict" -> v.d # <<>>

\* `a or b`
Or(a, b) == IF Truthy(a) THEN a ELSE b

\* dict.get(key): None when the key is absent
Get(d, k) == IF k \in DOMAIN d THEN d[k] ELSE None

\* random.uniform(0, 1): the values it can return, in units of 1/TempScale
uniform == {Num(k) : k \in 0..(TempScale - 1)}

Keys == {"max_gen_len", "max_tokens", "temperature", "stop_sequences",
         "anthropic_version"}

\* a settings mapping with every key present and truthy
Configured ==
    [k \in Keys |->
        CASE k = "max_gen_len" -> Num(512)
          [] k = "max_tokens" -> Num(100)
          [] k = "temperature" -> Num(1)
          [] k = "stop_sequences" -> List(<<"Human:">>)
          [] k = "anthropic_version" -> Str("bedrock-2024")]

\* a settings mapping with every key present and falsy
Zeroed ==
    [k \in Keys |->
        CASE k = "max_gen_len" -> Num(0)
          [] k = "max_tokens" -> Num(0)
          [] k = "temperature" -> Num(0)
          [] k = "stop_sequences" -> List(<<>>)
          [] k = "anthropic_version" -> Str("")]

\* Model.__init__: model_settings defaults to the empty mapping
Empty == [k \in {} |-> None]

SettingsChoices == {Empty, Configured, Zeroed}

----------------------------------------------------------------------------
\* Messages

Roles == {"system", "user", "assistant"}

Message(r, c) == [role |-> r, content |-> c]

\* the content of the caller's i-th message
Content(i) == <<"m" \o ToString(i)>>

\* the message values a list of ids denotes
Deref(h, l) == [i \in 1..Len(l) |-> h[l[i]]]

NL2 == "\n\n"

\* Message.dict(): the message as a {role, content} mapping
dict(m) == [role |-> m.role, content |-> m.content]

\* sep.join(texts)
RECURSIVE join(_, _)
join(sep, texts) ==
    IF texts = <<>> THEN <<>>
    ELSE IF Len(texts) = 1 THEN texts[1]
    ELSE texts[1] \o <<sep>> \o join(sep, Tail(texts))

----------------------------------------------------------------------------
\* fix_loop comparing with the first accepted message instead of the last
RECURSIVE fix_loop_first(_, _, _, _, _)
fix_loop_first(srs, h, l, i, fixed_messages) ==
    IF i > Len(l) THEN [heap |-> h, ret |-> fixed_messages]
    ELSE
        LET m == l[i]
            h1 == IF ~srs /\ h[m].role = "system"
                  THEN [h EXCEPT ![m].role = "user"]
                  ELSE h
            n == Len(fixed_messages)
        IN  IF n > 0 /\ h1[fixed_messages[1]].role = h1[m].role
            THEN fix_loop_first(srs,
                          [h1 EXCEPT ![fixed_messages[n]].content =
                                        @ \o <<NL2>> \o h1[m].content],
                          l, i + 1, fixed_messages)
            ELSE fix_loop_first(srs, h1, l, i + 1, Append(fixed_messages, m))

\* fix_loop merging the new content in front of the accepted content
RECURSIVE fix_loop_prepend(_, _, _, _, _)
fix_loop_prepend(srs, h, l, i, fixed_messages) ==
    IF i > Len(l) THEN [heap |-> h, ret |-> fixed_messages]
    ELSE
        LET m == l[i]
            h1 == IF ~srs /\ h[m].role = "system"
                  THEN [h EXCEPT ![m].role = "user"]
                  ELSE h
            n == Len(fixed_messages)
        IN  IF n > 0 /\ h1[fixed_messages[n]].role = h1[m].role
            THEN fix_loop_prepend(srs,
                          [h1 EXCEPT ![fixed_messages[n]].content =
                                        h1[m].content \o <<NL2>> \o @],
                          l, i + 1, fixed_messages)
            ELSE fix_loop_prepend(srs, h1, l, i + 1, Append(fixed_messages, m))

\* fix_loop demoting the role only after the comparison with the last
\* accepted message
RECURSIVE fix_loop_late(_, _, _, _, _)
fix_loop_late(srs, h, l, i, fixed_messages) ==
    IF i > Len(l) THEN [heap |-> h, ret |-> fixed_messages]
    ELSE
        LET m == l[i]
            h1 == IF ~srs /\ h[m].role = "system"
                  THEN [h EXCEPT ![m].role = "user"]
                  ELSE h
            n == Len(fixed_messages)
        IN  IF n > 0 /\ h[fixed_messages[n]].role = h[m].role
            THEN fix_loop_late(srs,
                          [h1 EXCEPT ![fixed_messages[n]].content =
                                        @ \o <<NL2>> \o h1[m].content],
                          l, i + 1, fixed_messages)
            ELSE fix_loop_late(srs, h1, l, i + 1, Append(fixed_messages, m))

\* Model.fix_and_merge_messages: the loop over msgs from position i on, with
\* the objects in h and the accepted list fixed_messages
RECURSIVE fix_loop(_, _, _, _, _)
fix_loop(srs, h, l, i, fixed_messages) ==
    IF i > Len(l) THEN [heap |-> h, ret |-> fixed_messages]
    ELSE
        LET m == l[i]
            h1 == IF ~srs /\ h[m].role = "system"
                  THEN [h EXCEPT ![m].role = "user"]
                  ELSE h
            n == Len(fixed_messages)
        IN  IF n > 0 /\ h1[fixed_messages[n]].role = h1[m].role
            THEN fix_loop(srs,
                          [h1 EXCEPT ![fixed_messages[n]].content =
                                        @ \o <<NL2>> \o h1[m].content],
                          l, i + 1, fixed_messages)
            ELSE fix_loop(srs, h1, l, i + 1, Append(fixed_messages, m))

Model_fix_and_merge_messages(srs, h, l) == fix_loop(srs, h, l, 1, <<>>)

\* class attribute Model.add_llama_special_tokens
add_llama_special_tokens == TRUE

\* Llama2.fix_and_merge_messages: the wrapping loop over the merged list
RECURSIVE llama_wrap(_, _, _)
llama_wrap(h, l, i) ==
    IF i > Len(l) THEN h
    ELSE
        LET m == l[i]
            h1 == IF h[m].role = "system"
                  THEN [h EXCEPT ![m].content = <<"<<SYS>> ">> \o @ \o <<" <</SYS>>">>]
                  ELSE h
            h2 == IF h1[m].role = "user"
                  THEN [h1 EXCEPT ![m].content = <<"[INST] ">> \o @ \o <<" [/INST]">>]
                  ELSE h1
        IN  llama_wrap(h2, l, i + 1)

Llama2_fix_and_merge_messages(srs, h, l) ==
    LET r == Model_fix_and_merge_messages(srs, h, l)
    IN  IF add_llama_special_tokens
        THEN [heap |-> llama_wrap(r.heap, r.ret, 1), ret |-> r.ret]
        ELSE r

\* self.fix_and_merge_messages, dispatched on the class
fix_and_merge_messages(v, srs, h, l) ==
    IF v = "Llama2" THEN Llama2_fix_and_merge_messages(srs, h, l)
    ELSE Model_fix_and_merge_messages(srs, h, l)

----------------------------------------------------------------------------
\* Return-type descriptors: a schema mapping (key/value pairs in insertion
\* order) or a type name

Schema == Dict(<<<<"title", "Answer">>, <<"type", "object">>>>)

ParamsChoices == {Schema, Str("text"), Str("json")}

\* json.dumps(d, indent=4) of a mapping of strings
RECURSIVE dumps_items(_)
dumps_items(d) ==
    IF d = <<>> THEN <<>>
    ELSE <<"    \"", d[1][1], "\": \"", d[1][2], "\"">>
         \o (IF Len(d) > 1 THEN <<",\n">> ELSE <<"\n">>)
         \o dumps_items(Tail(d))

json_dumps(d) == IF d = <<>> THEN <<"{}">> ELSE <<"{\n">> \o dumps_items(d) \o <<"}">>

\* the markdown code fence (three backquotes)
FENCE == "<fence>"

\* Template(Model.system_message_jinja2()).render(schema, return_type).strip()
system_message_jinja2(schema, return_type) ==
    <<"Act like a REST API that performs the requested operation the user asked according to guidelines provided.\n">>
    \o (IF return_type = <<"json">>
        THEN <<"Your response should be a valid JSON format, strictly adhering to the Pydantic schema provided in the json_schema section.\n",
               "Respond in a structured JSON format according to the provided schema.\n",
               FENCE, "json_schema\n">> \o schema \o <<"\n", FENCE, "\n">>
        ELSE <<"Your response should be a valid ">> \o return_type \o <<" only\n">>)
    \o <<"Stick to the facts and details in the provided data, and follow the guidelines closely.\n",
         "DO NOT add any other text other than the ">> \o return_type \o <<" response">>

\* Template(Model.assistant_hint_jinja2()).render(return_type).strip()
assistant_hint_jinja2(return_type) ==
    IF return_type = <<"json">> THEN <<FENCE>> \o return_type ELSE <<>>

\* Model.build_prompt, lines 73-89: the two rendered scaffold texts
render(p) ==
    IF p.t = "dict"
    THEN [content |-> system_message_jinja2(json_dumps(p.d), <<"json">>),
          hint |-> assistant_hint_jinja2(<<"json">>)]
    ELSE [content |-> system_message_jinja2(<<p.s>>, <<p.s>>),
          hint |-> assistant_hint_jinja2(<<p.s>>)]

\* build_prompt appending the system message instead of inserting it at 0
build_prompt_append(v, srs, h, messages, p) ==
    LET r == render(p)
        h1 == h \o <<Message("system", r.content), Message("assistant", r.hint)>>
        messages1 == messages \o <<Len(h) + 1, Len(h) + 2>>
    IN  fix_and_merge_messages(v, srs, h1, messages1)

\* Model.build_prompt: insert the scaffold messages and normalise
build_prompt(v, srs, h, messages, p) ==
    LET r == render(p)
        h1 == h \o <<Message("system", r.content), Message("assistant", r.hint)>>
        messages1 == <<Len(h) + 1>> \o messages \o <<Len(h) + 2>>
    IN  fix_and_merge_messages(v, srs, h1, messages1)

----------------------------------------------------------------------------
\* CohereCommand.format_messages

\* role_converter keeping a role of its own for system messages
role_converter_system(r) ==
    CASE r = "user" -> "USER"
      [] r = "system" -> "SYSTEM"
      [] r = "assistant" -> "CHATBOT"

role_converter(r) ==
    CASE r = "user" -> "USER"
      [] r = "system" -> "USER"
      [] r = "assistant" -> "CHATBOT"

RECURSIVE format_loop(_, _, _, _)
format_loop(h, l, i, output) ==
    IF i > Len(l) THEN [heap |-> h, ret |-> output]
    ELSE
        LET m == l[i]
            h1 == IF h[m].role = "system"
                  THEN [h EXCEPT ![m].content = <<"## Instructions\n">> \o @]
                  ELSE h
        IN  format_loop(h1, l, i + 1,
                Append(output, [role |-> role_converter(h1[m].role),
                                message |-> h1[m].content]))

format_messages(h, l) == format_loop(h, l, 1, <<>>)

\* "\n".join([f"{c['role']}: {c['message']}" for c in content])
cohere_prompt(content) ==
    join("\n", [i \in 1..Len(content) |->
                    <<content[i].role, ": ">> \o content[i].message])

----------------------------------------------------------------------------
\* bedrock_format of each class: the request body (before json.dumps), for
\* settings s, the temperature u drawn by uniform(0, 1), and the messages

NoBody == [class |-> "none"]

Llama2_bedrock_format(s, u, h, l) ==
    [class |-> "Llama2",
     max_gen_len |-> Or(Get(s, "max_gen_len"), Num(2048)),
     prompt |-> join("\n", [i \in 1..Len(l) |-> h[l[i]].content]),
     temperature |-> Or(Get(s, "temperature"), u)]

CohereCommand_bedrock_format(s, u, content) ==
    [class |-> "CohereCommand",
     prompt |-> cohere_prompt(content),
     stop_sequences |-> Or(Get(s, "stop_sequences"), List(<<"User:">>)),
     temperature |-> Or(Get(s, "temperature"), u)]

CohereCommandR_bedrock_format(s, u, content) ==
    [class |-> "CohereCommandR",
     message |-> cohere_prompt(content),
     max_tokens |-> Num(20000),
     stop_sequences |-> Or(Get(s, "stop_sequences"), List(<<"User:">>)),
     temperature |-> Or(Get(s, "temperature"), u)]

\* Claude.bedrock_format popping the last message instead of the first
Claude_bedrock_format_pop_last(s, u, h, l) ==
    LET system_message == h[l[Len(l)]]
        rest == SubSeq(l, 1, Len(l) - 1)
    IN  [class |-> "Claude",
         system |-> system_message.content,
         max_tokens |-> Or(Get(s, "max_tokens"), Num(8000)),
         messages |-> [i \in 1..Len(rest) |-> dict(h[rest[i]])],
         temperature |-> Or(Get(s, "temperature"), u),
         anthropic_version |-> Or(Get(s, "anthropic_version"),
                                  Str("bedrock-2023-05-31"))]

\* list.pop(0) refusing a list that has nothing after its first element
pop_raises_short(l) == Len(l) <= 1

\* list.pop(0) raises IndexError exactly on the empty list
pop_raises(l) == l = <<>>

\* Claude.bedrock_format on a non-empty list: msgs.pop(0) took system_message
Claude_bedrock_format(s, u, h, l) ==
    LET system_message == h[l[1]]
        rest == Tail(l)
    IN  [class |-> "Claude",
         system |-> system_message.content,
         max_tokens |-> Or(Get(s, "max_tokens"), Num(8000)),
         messages |-> [i \in 1..Len(rest) |-> dict(h[rest[i]])],
         temperature |-> Or(Get(s, "temperature"), u),
         anthropic_version |-> Or(Get(s, "anthropic_version"),
                                  Str("bedrock-2023-05-31"))]

----------------------------------------------------------------------------
\* The formatter classes.  "Model" stands for the base class or a subclass
\* that overrides nothing but the system_role_supported flag.

Variants == {"Model", "GPT", "Llama2", "CohereCommand", "CohereCommandR",
             "Claude"}

\* Llama2.__init__ takes no settings and passes none on: model_settings = {}
SettingsOf(v) == IF v = "Llama2" THEN {Empty} ELSE SettingsChoices

\* every class of the file leaves system_role_supported = True
FlagsOf(v) == IF v = "Model" THEN BOOLEAN ELSE {TRUE}

Init ==
    /\ variant \in Variants
    /\ system_role_supported \in FlagsOf(variant)
    /\ model_settings \in SettingsOf(variant)
    /\ params \in ParamsChoices
    /\ \E n \in 0..MaxLen : \E roles \in [1..n -> Roles] :
          /\ heap = [i \in 1..n |-> Message(roles[i], Content(i))]
          /\ msgs = [i \in 1..n |-> i]
    /\ input = heap
    /\ hist = <<>>
    /\ arg = <<>>
    /\ error = "none"
    /\ body = NoBody
    /\ entries = <<>>

\* bookkeeping shared by the calls
Call(name) ==
    /\ Len(hist) < MaxCalls
    /\ hist' = Append(hist, name)
    /\ arg' = Deref(heap, msgs)
    /\ UNCHANGED <<variant, system_role_supported, model_settings, params, input>>

\* msgs = obj.fix_and_merge_messages(msgs)
FixAndMerge ==
    /\ Call("fix_and_merge_messages")
    /\ LET r == fix_and_merge_messages(variant, system_role_supported, heap, msgs)
       IN  heap' = r.heap /\ msgs' = r.ret
    /\ error' = "none"
    /\ body' = NoBody
    /\ entries' = <<>>

\* msgs = obj.build_prompt(msgs, params) on a class with templates
BuildPromptOk ==
    /\ variant # "GPT"
    /\ Call("build_prompt")
    /\ LET r == build_prompt(variant, system_role_supported, heap, msgs, params)
       IN  heap' = r.heap /\ msgs' = r.ret
    /\ error' = "none"
    /\ body' = NoBody
    /\ entries' = <<>>

\* GPT.system_message_jinja2 returns None and Template(None) raises
BuildPromptGPT ==
    /\ variant = "GPT"
    /\ Call("build_prompt")
    /\ error' = "TypeError"
    /\ body' = NoBody
    /\ entries' = <<>>
    /\ UNCHANGED <<heap, msgs>>

BuildPrompt == BuildPromptOk \/ BuildPromptGPT

\* Model.bedrock_format, inherited by GPT
BedrockFormatModel ==
    /\ variant \in {"Model", "GPT"}
    /\ Call("bedrock_format")
    /\ error' = "NotImplementedError"
    /\ body' = NoBody
    /\ entries' = <<>>
    /\ UNCHANGED <<heap, msgs>>

BedrockFormatLlama2 ==
    /\ variant = "Llama2"
    /\ Call("bedrock_format")
    /\ \E u \in uniform :
          body' = Llama2_bedrock_format(model_settings, u, heap, msgs)
    /\ error' = "none"
    /\ entries' = <<>>
    /\ UNCHANGED <<heap, msgs>>

BedrockFormatCohere ==
    /\ variant \in {"CohereCommand", "CohereCommandR"}
    /\ Call("bedrock_format")
    /\ LET r == format_messages(heap, msgs)
       IN  /\ heap' = r.heap
           /\ entries' = r.ret
           /\ \E u \in uniform :
                 body' = IF variant = "CohereCommand"
                         THEN CohereCommand_bedrock_format(model_settings, u, r.ret)
                         ELSE CohereCommandR_bedrock_format(model_settings, u, r.ret)
    /\ error' = "none"
    /\ UNCHANGED msgs

BedrockFormatClaude ==
    /\ variant = "Claude"
    /\ Call("bedrock_format")
    /\ ~pop_raises(msgs)
    /\ \E u \in uniform :
          body' = Claude_bedrock_format(model_settings, u, heap, msgs)
    /\ msgs' = Tail(msgs)
    /\ error' = "none"
    /\ entries' = <<>>
    /\ UNCHANGED heap

\* msgs.pop(0) on an empty list
BedrockFormatClaudeEmpty ==
    /\ variant = "Claude"
    /\ Call("bedrock_format")
    /\ pop_raises(msgs)
    /\ error' = "IndexError"
    /\ body' = NoBody
    /\ entries' = <<>>
    /\ UNCHANGED <<heap, msgs>>

BedrockFormat ==
    \/ BedrockFormatModel
    \/ BedrockFormatLlama2
    \/ BedrockFormatCohere
    \/ BedrockFormatClaude
    \/ BedrockFormatClaudeEmpty

\* entries = CohereCommand.format_messages(msgs)
FormatMessages ==
    /\ variant \in {"CohereCommand", "CohereCommandR"}
    /\ Call("format_messages")
    /\ LET r == format_messages(heap, msgs)
       IN  heap' = r.heap /\ entries' = r.ret
    /\ error' = "none"
    /\ body' = NoBody
    /\ UNCHANGED msgs

Next == FixAndMerge \/ BuildPrompt \/ BedrockFormat \/ FormatMessages

Spec == Init /\ [][Next]_vars

----------------------------------------------------------------------------
\* Vocabulary of the properties

Last == IF hist = <<>> THEN "none" ELSE hist[Len(hist)]
Prev == IF Len(hist) < 2 THEN "none" ELSE hist[Len(hist) - 1]

\* the messages the caller holds after the last call
out == Deref(heap, msgs)

NoRepeat(l) == \A i \in 1..(Len(l) - 1) : l[i].role # l[i + 1].role

\* the contents of a list of messages, one after the other
RECURSIVE Concat(_)
Concat(l) == IF l = <<>> THEN <<>> ELSE l[1].content \o Concat(Tail(l))

Strip(text, toks) == SelectSeq(text, LAMBDA t : t \notin toks)

BeginsWith(text, p) ==
    Len(text) >= Len(p) /\ SubSeq(text, 1, Len(p)) = p
EndsWith(text, p) ==
    Len(text) >= Len(p) /\ SubSeq(text, Len(text) - Len(p) + 1, Len(text)) = p

\* the role a message is normalised under
Demoted(m) ==
    IF ~system_role_supported /\ m.role = "system" THEN "user" ELSE m.role

\* maximal runs of equal normalised role in the argument of the last call
RunStarts ==
    {i \in 1..Len(arg) : i = 1 \/ Demoted(arg[i]) # Demoted(arg[i - 1])}
RunEnd(i) ==
    CHOOSE j \in i..Len(arg) :
        /\ \A k \in i..j : Demoted(arg[k]) = Demoted(arg[i])
        /\ j = Len(arg) \/ Demoted(arg[j + 1]) # Demoted(arg[i])
RunStart(k) ==
    CHOOSE i \in RunStarts : Cardinality({j \in RunStarts : j <= i}) = k
RunContent(i) ==
    join(NL2, [k \in 1..(RunEnd(i) - i + 1) |-> arg[i + k - 1].content])

FixReturned == Last = "fix_and_merge_messages"

----------------------------------------------------------------------------
\* C1: whatever list is passed and whatever the flag, the list returned by
\* fix_and_merge_messages has no two adjacent messages of the same role.
C1_NoAdjacentSameRole == FixReturned => NoRepeat(out)

\* a call that demoted a system message next to a user message and merged
C1_Witness ==
    /\ FixReturned
    /\ ~system_role_supported
    /\ \E i \in 1..(Len(arg) - 1) :
          arg[i].role = "system" /\ arg[i + 1].role = "user"
    /\ Len(out) >= 2

\* C2: Model.fix_and_merge_messages is a stable content-preserving merge:
\* the output is no longer than the input, each maximal run of equal
\* (demoted) role becomes one message holding the run's contents joined by
\* the blank-line separator, and the contents without separators are the
\* input contents in order.
C2_StableMerge ==
    (FixReturned /\ variant # "Llama2") =>
        /\ Len(out) <= Len(arg)
        /\ Len(out) = Cardinality(RunStarts)
        /\ \A k \in 1..Len(out) :
              /\ out[k].role = Demoted(arg[RunStart(k)])
              /\ out[k].content = RunContent(RunStart(k))
        /\ Strip(Concat(out), {NL2}) = Strip(Concat(arg), {NL2})

\* a call that merged a run and kept another message apart
C2_Witness ==
    /\ FixReturned /\ variant # "Llama2"
    /\ Len(arg) >= 3
    /\ Len(out) = 2
    /\ \E i \in RunStarts : RunEnd(i) > i

\* C3: with system_role_supported false, fix_and_merge_messages applied to
\* the list a first fix_and_merge_messages returned gives the same roles and
\* contents in the same order.
C3_DemotionIdempotent ==
    (FixReturned /\ Prev = "fix_and_merge_messages" /\ ~system_role_supported)
        => out = arg

\* a second call after a first one that demoted and merged
C3_Witness ==
    /\ hist = <<"fix_and_merge_messages", "fix_and_merge_messages">>
    /\ ~system_role_supported
    /\ \E i \in 1..Len(input) : input[i].role = "system"
    /\ Len(out) < Len(input)
    /\ Len(out) >= 1

\* the default the documentation gives a body field of a class
DocumentedDefault(class, k) ==
    CASE k = "max_gen_len" -> Num(2048)
      [] k = "max_tokens" -> IF class = "CohereCommandR" THEN Num(20000) ELSE Num(8000)
      [] k = "stop_sequences" -> List(<<"User:">>)
      [] k = "anthropic_version" -> Str("bedrock-2023-05-31")

\* C4: every settings key a request body carries holds the configured value
\* when the key is present in the settings, and the documented default (for
\* temperature a number in [0, 1)) when it is absent.
C4_ConfiguredOrDefault ==
    (Last = "bedrock_format" /\ error = "none") =>
        \A k \in Keys \cap DOMAIN body :
            IF k \in DOMAIN model_settings
            THEN body[k] = model_settings[k]
            ELSE IF k = "temperature"
                 THEN body[k] \in uniform
                 ELSE body[k] = DocumentedDefault(body.class, k)

\* the scaffold texts build_prompt renders for the caller's descriptor
SystemText == render(params).content
Hint == render(params).hint

LlamaTokens == {"<<SYS>> ", " <</SYS>>", "[INST] ", " [/INST]"}

BuildReturned == Last = "build_prompt" /\ error = "none"

\* C5 as stated: on every variant with system_role_supported = true the list
\* build_prompt returns starts with a system message whose content begins
\* with the system-instruction text, ends with an assistant message whose
\* content ends with the hint, and holds the caller's messages in between
\* or merged into the two, in order.
C5_AsStated ==
    (BuildReturned /\ system_role_supported) =>
        /\ out # <<>>
        /\ out[1].role = "system"
        /\ BeginsWith(out[1].content, SystemText)
        /\ out[Len(out)].role = "assistant"
        /\ EndsWith(out[Len(out)].content, Hint)
        /\ Strip(Concat(out), {NL2})
             = Strip(SystemText \o Concat(arg) \o Hint, {NL2})

\* C5 amended: as stated on Model, CohereCommand, CohereCommandR and Claude;
\* on Llama2 the first message is the system message whose content is
\* "<<SYS>> ", the system-instruction text, whatever was merged, " <</SYS>>",
\* the last is the assistant message ending with the hint, and the caller's
\* contents appear in order once the separators and the Llama tokens are
\* left out.
C5_ScaffoldAtBoundaries ==
    (BuildReturned /\ system_role_supported) =>
        LET opener == IF variant = "Llama2" THEN <<"<<SYS>> ">> ELSE <<>>
            closer == IF variant = "Llama2" THEN <<" <</SYS>>">> ELSE <<>>
            added == IF variant = "Llama2" THEN LlamaTokens \cup {NL2} ELSE {NL2}
        IN  /\ out # <<>>
            /\ out[1].role = "system"
            /\ BeginsWith(out[1].content, opener \o SystemText)
            /\ EndsWith(out[1].content, closer)
            /\ out[Len(out)].role = "assistant"
            /\ EndsWith(out[Len(out)].content, Hint)
            /\ Strip(Concat(out), added)
                 = Strip(SystemText \o Concat(arg) \o Hint, added)

\* Llama2 built a prompt around a caller list that starts with a system
\* message and ends with an assistant message, in schema mode
C5_Witness ==
    /\ BuildReturned /\ variant = "Llama2"
    /\ params.t = "dict"
    /\ Len(arg) = 3
    /\ arg[1].role = "system" /\ arg[2].role = "user" /\ arg[3].role = "assistant"
    /\ Len(out) = 3

\* C6: Claude.bedrock_format on a non-empty list puts the first message's
\* content in the body's system field and exactly the remaining messages,
\* in order, as {role, content} pairs in its messages field.
C6_ClaudeBody ==
    (Last = "bedrock_format" /\ variant = "Claude" /\ arg # <<>>) =>
        /\ error = "none"
        /\ body.class = "Claude"
        /\ body.system = arg[1].content
        /\ body.messages =
              [i \in 1..(Len(arg) - 1) |->
                  [role |-> arg[i + 1].role, content |-> arg[i + 1].content]]

\* a body made from a built prompt with at least two messages after the
\* system message
C6_Witness ==
    /\ hist = <<"build_prompt", "bedrock_format">>
    /\ variant = "Claude"
    /\ Len(arg) >= 3
    /\ body.class = "Claude"
    /\ Len(body.messages) = Len(arg) - 1

\* C7: format_messages returns one entry per message, in order, with role
\* user -> USER, system -> USER, assistant -> CHATBOT, and the message's
\* content, prefixed with "## Instructions\n" for a system message.
C7_CohereConversion ==
    (Last = "format_messages") =>
        /\ Len(entries) = Len(arg)
        /\ \A i \in 1..Len(arg) :
              /\ arg[i].role = "user" =>
                    entries[i] = [role |-> "USER", message |-> arg[i].content]
              /\ arg[i].role = "assistant" =>
                    entries[i] = [role |-> "CHATBOT", message |-> arg[i].content]
              /\ arg[i].role = "system" =>
                    entries[i] = [role |-> "USER",
                                  message |-> <<"## Instructions\n">> \o arg[i].content]

\* a conversion of a list holding all three roles
C7_Witness ==
    /\ Last = "format_messages"
    /\ \A r \in Roles : \E i \in 1..Len(arg) : arg[i].role = r
    /\ Len(entries) = 3

\* number of occurrences of a token in a text
Count(text, tok) == Len(SelectSeq(text, LAMBDA t : t = tok))

LlamaEndToEnd ==
    hist = <<"build_prompt", "bedrock_format">> /\ variant = "Llama2"

\* C8: Llama2, build_prompt then bedrock_format, with a plain-type
\* descriptor: for a single user message the prompt is one
\* <<SYS>> ... <</SYS>> block, a newline, one [INST] ... [/INST] block with the
\* user's text, a newline and no hint content; in general every system and
\* user message is wrapped once and assistant content is not wrapped.
C8_LlamaEndToEnd ==
    (LlamaEndToEnd /\ params.t = "str") =>
        /\ (Len(input) = 1 /\ input[1].role = "user") =>
              body.prompt = <<"<<SYS>> ">> \o SystemText \o <<" <</SYS>>", "\n",
                              "[INST] ">> \o input[1].content
                              \o <<" [/INST]", "\n">>
        /\ \A tok \in {"<<SYS>> ", " <</SYS>>"} :
              Count(body.prompt, tok)
                 = Cardinality({i \in 1..Len(arg) : arg[i].role = "system"})
        /\ \A tok \in {"[INST] ", " [/INST]"} :
              Count(body.prompt, tok)
                 = Cardinality({i \in 1..Len(arg) : arg[i].role = "user"})
        /\ \A i \in 1..Len(arg) :
              arg[i].role = "assistant" =>
                  Strip(arg[i].content, LlamaTokens) = arg[i].content

\* C9: Claude.bedrock_format raises (and returns no body) on an empty list,
\* and never raises this way on a non-empty list.
C9_ClaudeEmptyList ==
    (Last = "bedrock_format" /\ variant = "Claude") =>
        /\ arg = <<>> => (error = "IndexError" /\ body = NoBody)
        /\ arg # <<>> => error = "none"

\* both cases: the second of two calls found the list emptied by the first
C9_Witness ==
    /\ hist = <<"bedrock_format", "bedrock_format">>
    /\ variant = "Claude"
    /\ Len(input) = 1
    /\ error = "IndexError"

\* C10: after build_prompt and a Cohere bedrock_format, no two adjacent
\* entries of the joined prompt carry the same converted role.
C10_CohereAlternation ==
    (Last = "bedrock_format" /\ Prev = "build_prompt"
        /\ variant \in {"CohereCommand", "CohereCommandR"}) =>
        /\ \A i \in 1..(Len(entries) - 1) : entries[i].role # entries[i + 1].role
        /\ body[IF variant = "CohereCommand" THEN "prompt" ELSE "message"]
              = cohere_prompt(entries)

====
